---- MODULE Spec2Model ----
(***************************************************************************)
(* Model of distributed-locks/benchmark.py: the benchmark sweep (main),    *)
(* one trial (run_benchmark) and the docker compose backend it drives.     *)
(*                                                                         *)
(* Text is a sequence of tokens.  The literal "TOTAL_TIME_MS:" is one      *)
(* token (the literal has no proper suffix that is also a prefix, so its   *)
(* occurrences in a text never overlap and every text splits uniquely),    *)
(* every other character is a token of its own: " ", a digit, or "x" for   *)
(* any character that is neither.                                          *)
(*                                                                         *)
(* Time is counted in whole seconds.  time.sleep(1) takes one second, a    *)
(* backend command takes zero or more seconds, everything else takes none. *)
(* The program reads the clock only at lines 22 and 33 and uses only the   *)
(* difference of the two readings, so the clock is counted from the entry  *)
(* of the current call of run_benchmark.                                   *)
(***************************************************************************)
EXTENDS Integers, Sequences, FiniteSets, TLC

VARIABLES
    pc,             \* position of the single thread of control
    i,              \* main: index of `count` in consumer_counts
    profile,        \* run_benchmark: parameter `profile`
    lua_time,       \* main: lua_time of the current row
    total_time_ms,  \* run_benchmark: local total_time_ms
    start_time,     \* run_benchmark: local start_time
    stdout,         \* run_benchmark: result.stdout of the last logs command
    loop_exit,      \* how the while loop was left: "none", "match", "timeout"
    now,            \* time.time(), counted from the entry of run_benchmark
    out,            \* the line most recently printed on standard output
    nrows,          \* number of table rows printed so far
    trace,          \* backend commands of the current trial, in order
    runs,           \* per cell: number of calls of run_benchmark
    rets,           \* per cell: number of returns of run_benchmark
    running,        \* backend: per profile, whether its services are up
    logs,           \* backend: per profile, the lines app-<profile> has logged
    config,         \* backend: per profile, the env its services were made with
    lastDur,        \* backend: seconds the last command took
    budget,         \* backend: anomalies (slow seconds, failed commands) left
    environ         \* os.environ of the process

vars == <<pc, i, profile, lua_time, total_time_ms, start_time, stdout,
          loop_exit, now, out, nrows, trace, runs, rets, running, logs,
          config, lastDur, budget, environ>>

(***************************************************************************)
(* Program constants                                                       *)
(***************************************************************************)
TIMEOUT == 60
INTERVAL == 1
work_duration == 50
consumer_counts == <<5, 10, 100, 200>>
Profiles == {"lua", "redlock"}
MARKER == "TOTAL_TIME_MS:"
Digits == {"0", "1", "2", "3", "4", "5", "6", "7", "8", "9"}

(***************************************************************************)
(* Bounds of the model                                                     *)
(***************************************************************************)
\* lines a service logs during one trial
MaxLogLines == 1
\* slow seconds plus failed commands of the backend during one sweep
MaxAnomalies == 1
\* tokens of a fetched text in SpecScan
MaxText == 6

Levels == 1..Len(consumer_counts)
Cells == Levels \X Profiles

(***************************************************************************)
(* Scanning the fetched text (lines 27-30)                                 *)
(***************************************************************************)
DigitVal(c) ==
    CASE c = "0" -> 0 [] c = "1" -> 1 [] c = "2" -> 2 [] c = "3" -> 3
      [] c = "4" -> 4 [] c = "5" -> 5 [] c = "6" -> 6 [] c = "7" -> 7
      [] c = "8" -> 8 [] c = "9" -> 9

\* "TOTAL_TIME_MS:" in result.stdout
HasMarkerText(text) == \E k \in 1..Len(text) : text[k] = MARKER

\* the pattern TOTAL_TIME_MS: (\d+) matches at position k
MatchAt(text, k) ==
    /\ k + 2 <= Len(text)
    /\ text[k] = MARKER
    /\ text[k + 1] = " "
    /\ text[k + 2] \in Digits

\* \d+ is greedy: the last position of the digit run that starts at k
RECURSIVE DigitRunEnd(_, _)
DigitRunEnd(text, k) ==
    IF k + 1 <= Len(text) /\ text[k + 1] \in Digits
    THEN DigitRunEnd(text, k + 1)
    ELSE k

NoMatch == <<>>

\* match.group(1) of the match at position k
Group(text, k) == SubSeq(text, k + 2, DigitRunEnd(text, k + 2))

\* a search that scans from the right and so takes the rightmost match
RECURSIVE SearchBack(_, _)
SearchBack(text, k) ==
    IF k < 1 THEN NoMatch
    ELSE IF MatchAt(text, k) THEN <<Group(text, k)>>
    ELSE SearchBack(text, k - 1)

re_search_rightmost(text) == SearchBack(text, Len(text))

\* re.search scans from the left: the leftmost match from position k on
RECURSIVE SearchFrom(_, _)
SearchFrom(text, k) ==
    IF k > Len(text) THEN NoMatch
    ELSE IF MatchAt(text, k) THEN <<Group(text, k)>>
    ELSE SearchFrom(text, k + 1)

\* re.search: <<group(1)>> of the leftmost match, or NoMatch for None
re_search(text) == SearchFrom(text, 1)

\* int(match.group(1)): the decimal value of the first n digits, of all
RECURSIVE ParsePrefix(_, _)
ParsePrefix(ds, n) ==
    IF n = 0 THEN 0 ELSE 10 * ParsePrefix(ds, n - 1) + DigitVal(ds[n])

ParseInt(ds) == ParsePrefix(ds, Len(ds))

\* lines 27 and 29: both conditions of the break
Found(text) == HasMarkerText(text) /\ re_search(text) # NoMatch

\* a timeout check that allows one second too many
TimedOutLate(t, s) == t - s > TIMEOUT + 1

\* line 33
TimedOut(t, s) == t - s > TIMEOUT

(***************************************************************************)
(* The report (lines 52-53)                                                *)
(***************************************************************************)
\* n / d rounded to the nearest integer, ties to even, for d > 0
RoundHalfEven(n, d) ==
    LET q == n \div d
        r == n % d
    IN  IF 2 * r < d THEN q
        ELSE IF 2 * r > d THEN q + 1
        ELSE IF q % 2 = 0 THEN q ELSE q + 1

\* x / y * 100 in hundredths, as {diff:>8.2f} prints it; dividing by zero
\* raises ZeroDivisionError
Value(v) == [fault |-> FALSE, val |-> v]
ZeroDivisionError == [fault |-> TRUE, val |-> 0]

Percent(x, y) ==
    IF y = 0 THEN ZeroDivisionError
    ELSE IF y > 0 THEN Value(RoundHalfEven(x * 10000, y))
    ELSE Value(RoundHalfEven(-x * 10000, -y))

\* line 52 without its guard
PercentDiffUnguarded(l, r) == Percent(r - l, l)

\* line 52 without the factor 100
PercentDiffFraction(l, r) ==
    IF l > 0 THEN Value(RoundHalfEven((r - l) * 100, l)) ELSE Value(0)

\* line 52
PercentDiff(l, r) == IF l > 0 THEN Percent(r - l, l) ELSE Value(0)

Line(kind, p, count, l, r, d) ==
    [kind |-> kind, profile |-> p, count |-> count, lua |-> l, red |-> r,
     diff |-> d]

NoLine == Line("none", "", 0, 0, 0, 0)
HeaderRule == Line("rule", "", 0, 0, 0, 0)
RunningLine(p, c) == Line("running", p, c, 0, 0, 0)
\* a diagnostic that does not say which profile timed out
TimeoutLineUnnamed(p) == Line("timeout", "", 0, 0, 0, 0)

\* line 34
TimeoutLine(p) == Line("timeout", p, 0, 0, 0, 0)
RowLine(c, l, r) == Line("row", "", c, l, r, PercentDiff(l, r).val)

(***************************************************************************)
(* The backend: docker compose                                             *)
(***************************************************************************)
\* the environment the process was started with; <<>> is a variable that
\* is not set
HostEnviron == [NUM_CONSUMERS |-> <<>>, WORK_DURATION |-> <<>>]

DigitOf(d) ==
    CASE d = 0 -> "0" [] d = 1 -> "1" [] d = 2 -> "2" [] d = 3 -> "3"
      [] d = 4 -> "4" [] d = 5 -> "5" [] d = 6 -> "6" [] d = 7 -> "7"
      [] d = 8 -> "8" [] d = 9 -> "9"

\* str(n) of an integer n >= 0
RECURSIVE Str(_)
Str(n) == IF n < 10 THEN <<DigitOf(n)>> ELSE Append(Str(n \div 10), DigitOf(n % 10))

\* lines 10-12: a copy of os.environ with the two variables set
Env(c) ==
    [environ EXCEPT !.NUM_CONSUMERS = Str(c), !.WORK_DURATION = Str(work_duration)]

Cmd(kind, p, c) == [cmd |-> kind, profile |-> p, env |-> Env(c)]

\* repeated logs commands are recorded once
Record(tr, c) ==
    IF tr # <<>> /\ tr[Len(tr)] = c /\ c.cmd = "logs" THEN tr
    ELSE Append(tr, c)

\* what a command can do: take d seconds, and exit zero or not
Outcomes(b) ==
    {o \in [dur : 0..b, ok : BOOLEAN] : o.dur + (IF o.ok THEN 0 ELSE 1) <= b}

Cost(o) == o.dur + (IF o.ok THEN 0 ELSE 1)

SeqsUpTo(S, n) == UNION {[1..m -> S] : m \in 0..n}

RECURSIVE Flatten(_)
Flatten(ls) == IF ls = <<>> THEN <<>> ELSE ls[1] \o Flatten(Tail(ls))

\* the time the service of profile p measures with c consumers: every
\* cell of the sweep has a time of its own
ServiceTime(p, c) ==
    (IF p = "lua" THEN 120 ELSE 300)
      + 10 * ((CHOOSE k \in Levels : consumer_counts[k] = c) - 1)

ServiceValue(p, c) == Str(ServiceTime(p, c))

\* a line with the marker text and no integer, and the completion line of
\* the service, with other text around it
BadLine == <<MARKER, " ", "x">>
OkLine(p, c) == <<"x", MARKER, " ">> \o ServiceValue(p, c) \o <<"x">>

ServiceLines(p, c) == {BadLine, OkLine(p, c)}

\* what the service of a running profile may have written since the last
\* look: its time is that of the NUM_CONSUMERS it was made with
Chunks(p) ==
    IF running[p]
    THEN SeqsUpTo(ServiceLines(p, ParseInt(config[p].NUM_CONSUMERS)),
                  MaxLogLines - Len(logs[p]))
    ELSE {<<>>}

\* no services, no env
NoConfig == [NUM_CONSUMERS |-> <<>>, WORK_DURATION |-> <<>>]

\* docker compose --profile p down: on success the services of p and their
\* logs are removed; on a non-zero exit nothing has changed
Down(p, ok) ==
    IF ok
    THEN /\ running' = [running EXCEPT ![p] = FALSE]
         /\ logs' = [logs EXCEPT ![p] = <<>>]
         /\ config' = [config EXCEPT ![p] = NoConfig]
    ELSE UNCHANGED <<running, logs, config>>

\* docker compose --profile p up --build -d with env e: on success the
\* services of p are up, made anew with e, or, if they were up already,
\* possibly left as they are with their log; on a non-zero exit nothing has
\* changed
Up(p, ok, e) ==
    IF ok
    THEN /\ running' = [running EXCEPT ![p] = TRUE]
         /\ \/ /\ logs' = [logs EXCEPT ![p] = <<>>]
               /\ config' = [config EXCEPT ![p] = e]
            \/ running[p] /\ UNCHANGED <<logs, config>>
    ELSE UNCHANGED <<running, logs, config>>

(***************************************************************************)
(* Initial state: the process has started, main has not yet run            *)
(***************************************************************************)
Init ==
    /\ pc = "main"
    /\ i = 1
    /\ profile = "lua"
    /\ lua_time = 0
    /\ total_time_ms = 0
    /\ start_time = 0
    /\ stdout = <<>>
    /\ loop_exit = "none"
    /\ now = 0
    /\ out = NoLine
    /\ nrows = 0
    /\ trace = <<>>
    /\ runs = [c \in Cells |-> 0]
    /\ rets = [c \in Cells |-> 0]
    /\ running = [p \in Profiles |-> FALSE]
    /\ config = [p \in Profiles |-> NoConfig]
    /\ logs = [p \in Profiles |-> <<>>]
    /\ lastDur = 0
    /\ budget = MaxAnomalies
    /\ environ = HostEnviron

(***************************************************************************)
(* main, lines 42-49: the header, then the first call of run_benchmark     *)
(***************************************************************************)
\* a sweep that runs the Redlock trial of a count first
MainStartsWithRedlock ==
    /\ pc = "main"
    /\ out' = HeaderRule
    /\ i' = 1
    /\ profile' = "redlock"
    /\ pc' = "reset"
    /\ UNCHANGED <<lua_time, total_time_ms, start_time, stdout, loop_exit,
                   now, nrows, trace, runs, rets, running, logs, lastDur,
                   budget>>
    /\ UNCHANGED <<config, environ>>

MainStart ==
    /\ pc = "main"
    /\ out' = HeaderRule
    /\ i' = 1
    /\ profile' = "lua"
    /\ pc' = "reset"
    /\ UNCHANGED <<lua_time, total_time_ms, start_time, stdout, loop_exit,
                   now, nrows, trace, runs, rets, running, logs, lastDur,
                   budget>>
    /\ UNCHANGED <<config, environ>>

(***************************************************************************)
(* run_benchmark, lines 7-15: announce, build env, down                    *)
(***************************************************************************)
\* a reset run with check=True: a non-zero exit raises CalledProcessError
ResetChecked ==
    /\ pc = "reset"
    /\ \E o \in Outcomes(budget) :
        /\ Down(profile, o.ok)
        /\ now' = now + o.dur
        /\ lastDur' = o.dur
        /\ budget' = budget - Cost(o)
        /\ pc' = IF o.ok THEN "start" ELSE "raised"
    /\ out' = RunningLine(profile, consumer_counts[i])
    /\ runs' = [runs EXCEPT ![<<i, profile>>] = @ + 1]
    /\ trace' = <<Cmd("down", profile, consumer_counts[i])>>
    /\ UNCHANGED <<i, profile, lua_time, total_time_ms, start_time, stdout,
                   loop_exit, nrows, rets>>
    /\ UNCHANGED environ

\* an env that is os.environ itself, not a copy of it: lines 11-12 then
\* write the environment of the process
ResetSharesEnviron ==
    /\ pc = "reset"
    /\ \E o \in Outcomes(budget) :
        /\ Down(profile, o.ok)
        /\ now' = now + o.dur
        /\ lastDur' = o.dur
        /\ budget' = budget - Cost(o)
    /\ out' = RunningLine(profile, consumer_counts[i])
    /\ runs' = [runs EXCEPT ![<<i, profile>>] = @ + 1]
    /\ trace' = <<Cmd("down", profile, consumer_counts[i])>>
    /\ pc' = "start"
    /\ environ' = Env(consumer_counts[i])
    /\ UNCHANGED <<i, profile, lua_time, total_time_ms, start_time, stdout,
                   loop_exit, nrows, rets>>

Reset ==
    /\ pc = "reset"
    /\ \E o \in Outcomes(budget) :
        /\ Down(profile, o.ok)
        /\ now' = now + o.dur
        /\ lastDur' = o.dur
        /\ budget' = budget - Cost(o)
    /\ out' = RunningLine(profile, consumer_counts[i])
    /\ runs' = [runs EXCEPT ![<<i, profile>>] = @ + 1]
    /\ trace' = <<Cmd("down", profile, consumer_counts[i])>>
    /\ pc' = "start"
    /\ UNCHANGED <<i, profile, lua_time, total_time_ms, start_time, stdout,
                   loop_exit, nrows, rets>>
    /\ UNCHANGED environ

(***************************************************************************)
(* run_benchmark, lines 18-23: up, then start_time and total_time_ms       *)
(***************************************************************************)
\* a start run with check=True: a non-zero exit raises CalledProcessError
StartChecked ==
    /\ pc = "start"
    /\ \E o \in Outcomes(budget) :
        /\ Up(profile, o.ok, Env(consumer_counts[i]))
        /\ now' = now + o.dur
        /\ lastDur' = o.dur
        /\ budget' = budget - Cost(o)
        /\ pc' = IF o.ok THEN "fetch" ELSE "raised"
    /\ start_time' = now'
    /\ total_time_ms' = 0
    /\ trace' = Record(trace, Cmd("up", profile, consumer_counts[i]))
    /\ UNCHANGED <<i, profile, lua_time, stdout, loop_exit, out, nrows, runs,
                   rets>>
    /\ UNCHANGED environ

\* a start that reads the clock before the up command, not after it
StartClockBeforeUp ==
    /\ pc = "start"
    /\ \E o \in Outcomes(budget) :
        /\ Up(profile, o.ok, Env(consumer_counts[i]))
        /\ now' = now + o.dur
        /\ lastDur' = o.dur
        /\ budget' = budget - Cost(o)
    /\ start_time' = now
    /\ total_time_ms' = 0
    /\ trace' = Record(trace, Cmd("up", profile, consumer_counts[i]))
    /\ pc' = "fetch"
    /\ UNCHANGED <<i, profile, lua_time, stdout, loop_exit, out, nrows, runs,
                   rets>>
    /\ UNCHANGED environ

Start ==
    /\ pc = "start"
    /\ \E o \in Outcomes(budget) :
        /\ Up(profile, o.ok, Env(consumer_counts[i]))
        /\ now' = now + o.dur
        /\ lastDur' = o.dur
        /\ budget' = budget - Cost(o)
    /\ start_time' = now'
    /\ total_time_ms' = 0
    /\ trace' = Record(trace, Cmd("up", profile, consumer_counts[i]))
    /\ pc' = "fetch"
    /\ UNCHANGED <<i, profile, lua_time, stdout, loop_exit, out, nrows, runs,
                   rets>>
    /\ UNCHANGED environ

(***************************************************************************)
(* run_benchmark, line 26: docker compose logs app-<profile>               *)
(***************************************************************************)
\* the command returns: the accumulated log, or nothing on a non-zero exit
FetchReturns ==
    /\ \E o \in Outcomes(budget) :
        /\ now' = now + o.dur
        /\ lastDur' = o.dur
        /\ budget' = budget - Cost(o)
        /\ \E chunk \in Chunks(profile) :
            /\ logs' = [logs EXCEPT ![profile] = @ \o chunk]
            /\ stdout' = IF o.ok THEN Flatten(logs'[profile]) ELSE <<>>
    /\ pc' = "scan"

\* subprocess.run raises (text=True cannot decode the output)
FetchRaises ==
    /\ pc' = "raised"
    /\ UNCHANGED <<now, lastDur, budget, logs, stdout>>

Fetch ==
    /\ pc = "fetch"
    /\ trace' = Record(trace, Cmd("logs", profile, consumer_counts[i]))
    /\ \/ FetchReturns
       \/ FetchRaises
    /\ UNCHANGED <<i, profile, lua_time, total_time_ms, start_time, loop_exit,
                   out, nrows, runs, rets, running>>
    /\ UNCHANGED <<config, environ>>

(***************************************************************************)
(* run_benchmark, lines 27-36: the rest of one iteration of the loop       *)
(***************************************************************************)
\* a loop body without the `if match:` of line 29: match.group(1) on None
\* raises AttributeError
LoopBodyUnguarded ==
    /\ pc = "scan"
    /\ IF HasMarkerText(stdout) /\ re_search(stdout) = NoMatch
       THEN /\ pc' = "raised"
            /\ UNCHANGED <<now, out, total_time_ms, loop_exit>>
       ELSE IF Found(stdout)
       THEN /\ \E match \in {re_search(stdout)} :
                  total_time_ms' = ParseInt(match[1])
            /\ loop_exit' = "match"
            /\ pc' = "teardown"
            /\ UNCHANGED <<now, out>>
       ELSE IF TimedOut(now, start_time)
       THEN /\ out' = TimeoutLine(profile)
            /\ loop_exit' = "timeout"
            /\ pc' = "teardown"
            /\ UNCHANGED <<now, total_time_ms>>
       ELSE /\ now' = now + INTERVAL
            /\ pc' = "fetch"
            /\ UNCHANGED <<total_time_ms, loop_exit, out>>
    /\ UNCHANGED <<i, profile, lua_time, start_time, stdout, nrows, trace,
                   runs, rets, running, logs, lastDur, budget>>
    /\ UNCHANGED <<config, environ>>

\* a loop body that starts the environment again before the next poll
LoopBodyRestarts ==
    /\ pc = "scan"
    /\ IF Found(stdout)
       THEN /\ \E match \in {re_search(stdout)} :
                  total_time_ms' = ParseInt(match[1])
            /\ loop_exit' = "match"
            /\ pc' = "teardown"
            /\ UNCHANGED <<now, out>>
       ELSE IF TimedOut(now, start_time)
       THEN /\ out' = TimeoutLine(profile)
            /\ loop_exit' = "timeout"
            /\ pc' = "teardown"
            /\ UNCHANGED <<now, total_time_ms>>
       ELSE /\ now' = now + INTERVAL
            /\ pc' = "start"
            /\ UNCHANGED <<total_time_ms, loop_exit, out>>
    /\ UNCHANGED <<i, profile, lua_time, start_time, stdout, nrows, trace,
                   runs, rets, running, logs, lastDur, budget>>
    /\ UNCHANGED <<config, environ>>

\* a loop body that tests the timeout before it looks for the marker
LoopBodyTimeoutFirst ==
    /\ pc = "scan"
    /\ IF TimedOut(now, start_time)
       THEN /\ out' = TimeoutLine(profile)
            /\ loop_exit' = "timeout"
            /\ pc' = "teardown"
            /\ UNCHANGED <<now, total_time_ms>>
       ELSE IF Found(stdout)
       THEN /\ \E match \in {re_search(stdout)} :
                  total_time_ms' = ParseInt(match[1])
            /\ loop_exit' = "match"
            /\ pc' = "teardown"
            /\ UNCHANGED <<now, out>>
       ELSE /\ now' = now + INTERVAL
            /\ pc' = "fetch"
            /\ UNCHANGED <<total_time_ms, loop_exit, out>>
    /\ UNCHANGED <<i, profile, lua_time, start_time, stdout, nrows, trace,
                   runs, rets, running, logs, lastDur, budget>>
    /\ UNCHANGED <<config, environ>>

LoopBody ==
    /\ pc = "scan"
    /\ IF Found(stdout)
       THEN /\ \E match \in {re_search(stdout)} :
                  total_time_ms' = ParseInt(match[1])
            /\ loop_exit' = "match"
            /\ pc' = "teardown"
            /\ UNCHANGED <<now, out>>
       ELSE IF TimedOut(now, start_time)
       THEN /\ out' = TimeoutLine(profile)
            /\ loop_exit' = "timeout"
            /\ pc' = "teardown"
            /\ UNCHANGED <<now, total_time_ms>>
       ELSE /\ now' = now + INTERVAL
            /\ pc' = "fetch"
            /\ UNCHANGED <<total_time_ms, loop_exit, out>>
    /\ UNCHANGED <<i, profile, lua_time, start_time, stdout, nrows, trace,
                   runs, rets, running, logs, lastDur, budget>>
    /\ UNCHANGED <<config, environ>>

(***************************************************************************)
(* run_benchmark, line 38: down                                            *)
(***************************************************************************)
\* a teardown that is skipped when the loop was left by the timeout
TeardownSkippedOnTimeout ==
    /\ pc = "teardown"
    /\ IF loop_exit = "timeout"
       THEN UNCHANGED <<running, logs, config, now, lastDur, budget, trace>>
       ELSE /\ \E o \in Outcomes(budget) :
                /\ Down(profile, o.ok)
                /\ now' = now + o.dur
                /\ lastDur' = o.dur
                /\ budget' = budget - Cost(o)
            /\ trace' = Record(trace, Cmd("down", profile, consumer_counts[i]))
    /\ pc' = "return"
    /\ UNCHANGED <<i, profile, lua_time, total_time_ms, start_time, stdout,
                   loop_exit, out, nrows, runs, rets>>
    /\ UNCHANGED environ

Teardown ==
    /\ pc = "teardown"
    /\ \E o \in Outcomes(budget) :
        /\ Down(profile, o.ok)
        /\ now' = now + o.dur
        /\ lastDur' = o.dur
        /\ budget' = budget - Cost(o)
    /\ trace' = Record(trace, Cmd("down", profile, consumer_counts[i]))
    /\ pc' = "return"
    /\ UNCHANGED <<i, profile, lua_time, total_time_ms, start_time, stdout,
                   loop_exit, out, nrows, runs, rets>>
    /\ UNCHANGED environ

(***************************************************************************)
(* line 39 and main: line 49 takes lua_time and line 50 calls the Redlock  *)
(* trial; line 50 takes red_time, lines 52-53 print the row and line 48    *)
(* goes to the next count or ends the sweep.  The frame of run_benchmark   *)
(* is gone on return: its locals, and the clock counted from its entry,    *)
(* go back to their initial values.                                        *)
(***************************************************************************)
FrameGone ==
    /\ total_time_ms' = 0
    /\ start_time' = 0
    /\ stdout' = <<>>
    /\ loop_exit' = "none"
    /\ now' = 0
    /\ lastDur' = 0

\* a sweep that gives up when the Lua trial yields no time
ReturnLuaAbortsOnZero ==
    /\ pc = "return"
    /\ profile = "lua"
    /\ lua_time' = total_time_ms
    /\ rets' = [rets EXCEPT ![<<i, profile>>] = @ + 1]
    /\ IF total_time_ms = 0
       THEN pc' = "done" /\ UNCHANGED profile
       ELSE pc' = "reset" /\ profile' = "redlock"
    /\ FrameGone
    /\ UNCHANGED <<i, out, nrows, trace, runs, running, logs, budget>>
    /\ UNCHANGED <<config, environ>>

ReturnLua ==
    /\ pc = "return"
    /\ profile = "lua"
    /\ lua_time' = total_time_ms
    /\ rets' = [rets EXCEPT ![<<i, profile>>] = @ + 1]
    /\ profile' = "redlock"
    /\ pc' = "reset"
    /\ FrameGone
    /\ UNCHANGED <<i, out, nrows, trace, runs, running, logs, budget>>
    /\ UNCHANGED <<config, environ>>

\* a sweep that runs the Redlock trial again when it yields no time
ReturnRedlockRetries ==
    /\ pc = "return"
    /\ profile = "redlock"
    /\ rets' = [rets EXCEPT ![<<i, profile>>] = @ + 1]
    /\ IF total_time_ms = 0
       THEN /\ pc' = "reset"
            /\ UNCHANGED <<i, profile, out, nrows>>
       ELSE /\ out' = RowLine(consumer_counts[i], lua_time, total_time_ms)
            /\ nrows' = nrows + 1
            /\ IF i < Len(consumer_counts)
               THEN /\ i' = i + 1
                    /\ profile' = "lua"
                    /\ pc' = "reset"
               ELSE /\ pc' = "done"
                    /\ UNCHANGED <<i, profile>>
    /\ FrameGone
    /\ UNCHANGED <<lua_time, trace, runs, running, logs, budget>>
    /\ UNCHANGED <<config, environ>>

ReturnRedlock ==
    /\ pc = "return"
    /\ profile = "redlock"
    /\ rets' = [rets EXCEPT ![<<i, profile>>] = @ + 1]
    /\ IF PercentDiff(lua_time, total_time_ms).fault
       THEN /\ pc' = "raised"
            /\ UNCHANGED <<i, profile, out, nrows>>
       ELSE /\ out' = RowLine(consumer_counts[i], lua_time, total_time_ms)
            /\ nrows' = nrows + 1
            /\ IF i < Len(consumer_counts)
               THEN /\ i' = i + 1
                    /\ profile' = "lua"
                    /\ pc' = "reset"
               ELSE /\ pc' = "done"
                    /\ UNCHANGED <<i, profile>>
    /\ FrameGone
    /\ UNCHANGED <<lua_time, trace, runs, running, logs, budget>>
    /\ UNCHANGED <<config, environ>>

Next ==
    \/ MainStart
    \/ Reset
    \/ Start
    \/ Fetch
    \/ LoopBody
    \/ Teardown
    \/ ReturnLua
    \/ ReturnRedlock

Spec == Init /\ [][Next]_vars

\* the sweep with one anomaly more: the least with which commands of two
\* trials can fail
InitMoreAnomalies ==
    /\ pc = "main"
    /\ i = 1
    /\ profile = "lua"
    /\ lua_time = 0
    /\ total_time_ms = 0
    /\ start_time = 0
    /\ stdout = <<>>
    /\ loop_exit = "none"
    /\ now = 0
    /\ out = NoLine
    /\ nrows = 0
    /\ trace = <<>>
    /\ runs = [c \in Cells |-> 0]
    /\ rets = [c \in Cells |-> 0]
    /\ running = [p \in Profiles |-> FALSE]
    /\ logs = [p \in Profiles |-> <<>>]
    /\ config = [p \in Profiles |-> NoConfig]
    /\ lastDur = 0
    /\ budget = MaxAnomalies + 1
    /\ environ = HostEnviron

SpecMoreAnomalies == InitMoreAnomalies /\ [][Next]_vars

\* the process is the only thread: it runs as long as it has a step to take
FairSpec == Spec /\ WF_vars(Next)

(***************************************************************************)
(* The first call of run_benchmark alone, up to its return statement       *)
(***************************************************************************)
NextTrial ==
    \/ MainStart
    \/ Reset
    \/ Start
    \/ Fetch
    \/ LoopBody
    \/ Teardown

FairTrial == Init /\ [][NextTrial]_vars /\ WF_vars(NextTrial)

(***************************************************************************)
(* One iteration of the loop on every text of at most MaxText tokens: the  *)
(* first trial has just fetched the text, at the start of polling or after *)
(* the timeout has passed.                                                 *)
(***************************************************************************)
Alphabet == {MARKER, " ", "1", "2", "x"}

InitScan ==
    /\ environ = HostEnviron
    /\ pc = "scan"
    /\ i = 1
    /\ profile = "lua"
    /\ lua_time = 0
    /\ total_time_ms = 0
    /\ start_time = 0
    /\ stdout \in SeqsUpTo(Alphabet, MaxText)
    /\ loop_exit = "none"
    /\ now \in {0, TIMEOUT + INTERVAL}
    /\ out = RunningLine("lua", consumer_counts[1])
    /\ nrows = 0
    /\ trace = <<Cmd("down", "lua", consumer_counts[1]),
                 Cmd("up", "lua", consumer_counts[1]),
                 Cmd("logs", "lua", consumer_counts[1])>>
    /\ runs = [c \in Cells |-> IF c = <<1, "lua">> THEN 1 ELSE 0]
    /\ rets = [c \in Cells |-> 0]
    /\ running = [p \in Profiles |-> p = "lua"]
    /\ config = [p \in Profiles |-> IF p = "lua" THEN Env(consumer_counts[1])
                                   ELSE NoConfig]
    /\ logs = [p \in Profiles |-> IF p = "lua" /\ stdout # <<>>
                                   THEN <<stdout>> ELSE <<>>]
    /\ lastDur = 0
    /\ budget = MaxAnomalies

NextScan == LoopBody

SpecScan == InitScan /\ [][NextScan]_vars

(***************************************************************************)
(* Properties                                                              *)
(***************************************************************************)
\* the teardowns in a trial's commands: the downs issued after its up
Teardowns(tr) ==
    {k \in 1..Len(tr) : tr[k].cmd = "down" /\ \E j \in 1..(k - 1) : tr[j].cmd = "up"}

InTrial == pc \in {"start", "fetch", "scan", "teardown", "return"}

\* C1: a call of run_benchmark whose loop ends by a match or by the timeout
\* issues the teardown exactly once: none while the loop runs, one (the
\* last command, for the trial's profile) when the loop has ended and the
\* call is about to return, and the call has not returned before that.
TeardownOnceAfterLoop ==
    /\ pc \in {"fetch", "scan", "teardown"} => Teardowns(trace) = {}
    /\ pc \in {"teardown", "return"} => loop_exit \in {"match", "timeout"}
    /\ pc = "return" =>
          /\ Cardinality(Teardowns(trace)) = 1
          /\ Len(trace) \in Teardowns(trace)
          /\ trace[Len(trace)] = Cmd("down", profile, consumer_counts[i])
    /\ InTrial => rets[<<i, profile>>] = 0

\* C1 witness: a trial that timed out has issued its one teardown
TimedOutTrialTornDown ==
    /\ pc = "return"
    /\ loop_exit = "timeout"
    /\ Cardinality(Teardowns(trace)) = 1

\* C2: a trial whose start was issued and whose logs command raised has
\* still issued the teardown for its profile (the process ends where the
\* exception leaves it, so what is not issued then never is).
TeardownAfterRaise ==
    (pc = "raised" /\ \E k \in 1..Len(trace) : trace[k].cmd = "up") =>
        \E k \in Teardowns(trace) : trace[k].profile = profile

InLoop == pc \in {"fetch", "scan"}

LeftByTimeout == pc = "teardown" /\ loop_exit = "timeout"

\* C3 as stated: when the marker never appears, the loop has ended no later
\* than 61 seconds (the timeout and one sleep) after polling began.
LoopEndsWithin61 == LeftByTimeout => now - start_time <= TIMEOUT + INTERVAL

\* C3 as amended: the loop always ends; every logs command of the loop is
\* issued no later than the timeout and one sleep after polling began, and
\* a loop left by the timeout ends when the last of them returns, so no
\* later than the timeout, one sleep and the time that command took.
LoopEndsAfterLastFetch ==
    /\ [](pc = "fetch" => now - start_time <= TIMEOUT + INTERVAL)
    /\ [](LeftByTimeout => now - start_time <= TIMEOUT + INTERVAL + lastDur)
    /\ (InLoop ~> ~InLoop)

\* C3 witness: a loop left by the timeout 62 seconds after polling began,
\* its last logs command having taken one second
TimeoutAfterSlowFetch ==
    /\ LeftByTimeout
    /\ lastDur = 1
    /\ now - start_time = TIMEOUT + INTERVAL + 1

(***************************************************************************)
(* What a completion marker is, stated on the text itself                  *)
(***************************************************************************)
Numerals == <<"0", "1", "2", "3", "4", "5", "6", "7", "8", "9">>

IsNumeral(c) == \E n \in 1..10 : Numerals[n] = c

NumeralValue(c) == (CHOOSE n \in 1..10 : Numerals[n] = c) - 1

RECURSIVE Pow10(_)
Pow10(n) == IF n = 0 THEN 1 ELSE 10 * Pow10(n - 1)

\* the decimal number written at positions a..b of t
RECURSIVE Decimal(_, _, _)
Decimal(t, a, b) ==
    IF a > b THEN 0
    ELSE NumeralValue(t[a]) * Pow10(b - a) + Decimal(t, a + 1, b)

\* positions k..m of t hold the marker text, a space and a whole integer
MarkerFromTo(t, k, m) ==
    /\ k >= 1
    /\ m <= Len(t)
    /\ m >= k + 2
    /\ t[k] = "TOTAL_TIME_MS:"
    /\ t[k + 1] = " "
    /\ \A j \in (k + 2)..m : IsNumeral(t[j])
    /\ m = Len(t) \/ ~IsNumeral(t[m + 1])

HasMarker(t) == \E k, m \in 1..Len(t) : MarkerFromTo(t, k, m)

\* the integer of the first marker of t
FirstMarkerValue(t) ==
    LET km == CHOOSE km \in (1..Len(t)) \X (1..Len(t)) :
                /\ MarkerFromTo(t, km[1], km[2])
                /\ \A k, m \in 1..Len(t) : MarkerFromTo(t, k, m) => km[1] <= k
    IN  Decimal(t, km[1] + 2, km[2])

\* t holds the marker text but no marker with an integer
Malformed(t) == (\E k \in 1..Len(t) : t[k] = "TOTAL_TIME_MS:") /\ ~HasMarker(t)

\* C4: after the loop body has looked at a fetched text: if the text holds a
\* marker with an integer, whatever surrounds it, the loop is left by the
\* match and the result is the integer of the first marker; if it holds
\* none, the result is not set, the loop is not left by a match, and while
\* the timeout has not passed the loop goes on to the next poll.
MarkerExtraction ==
    pc # "scan" =>
        IF HasMarker(stdout)
        THEN /\ pc = "teardown"
             /\ loop_exit = "match"
             /\ total_time_ms = FirstMarkerValue(stdout)
        ELSE /\ total_time_ms = 0
             /\ loop_exit # "match"
             /\ now - start_time <= TIMEOUT => pc = "fetch"

\* C4 witness: the integer 12 taken from a marker between other text
MarkerTakenFromNoise ==
    /\ stdout = <<"x", MARKER, " ", "1", "2", "x">>
    /\ pc = "teardown"
    /\ loop_exit = "match"
    /\ total_time_ms = 12

\* C10 as stated: a fetched text that holds the marker text but no integer
\* ends the trial with an error.
MalformedMarkerFailsTrial == (pc # "scan" /\ Malformed(stdout)) => pc = "raised"

\* C10 as amended: a fetched text that holds the marker text but no integer
\* is treated as not yet found: no error is raised and the result is not
\* set; the loop sleeps and polls again, or, the timeout having passed, is
\* left by the timeout.
MalformedMarkerPolledAgain ==
    (pc # "scan" /\ Malformed(stdout)) =>
        /\ total_time_ms = 0
        /\ \/ pc = "fetch" /\ loop_exit = "none"
           \/ /\ pc = "teardown"
              /\ loop_exit = "timeout"
              /\ now - start_time > TIMEOUT

\* C10 witness: the marker text followed by no integer, and the next poll due
MalformedThenNextPoll ==
    /\ stdout = <<MARKER, " ", "x">>
    /\ pc = "fetch"
    /\ now = start_time + INTERVAL

(***************************************************************************)
(* The sweep                                                               *)
(***************************************************************************)
TimedOutReturn == pc = "return" /\ loop_exit = "timeout"

\* how far the sweep has come: the trial, the position in it, the time polled
TrialIndex == 2 * (i - 1) + (IF profile = "lua" THEN 0 ELSE 1)

Rank ==
    CASE pc = "main" -> 0
      [] pc = "reset" -> 1
      [] pc = "start" -> 2
      [] pc \in {"fetch", "scan"} -> 3
      [] pc = "teardown" -> 4
      [] pc = "return" -> 5
      [] pc = "raised" -> 6
      [] pc = "done" -> 7

Progress ==
    (TrialIndex * 8 + Rank) * 1000
      + (IF InLoop THEN 2 * now + (IF pc = "scan" THEN 1 ELSE 0) ELSE 0)

\* C5: a trial that timed out returns 0 and the sweep goes on: after a
\* timed-out Lua trial the Redlock trial of the same count is called, with
\* lua_time 0 kept until the row; after a timed-out Redlock trial the row
\* of the count is printed with 0 for it and the sweep goes to the next
\* count or ends.  The sweep always moves forward (a bounded measure grows
\* with every step) and stops only when done, with a row for every count,
\* or where a logs command raised, never because of a timeout.
SweepSurvivesTimeout ==
    /\ [](TimedOutReturn => total_time_ms = 0)
    /\ [][(TimedOutReturn /\ profile = "lua") =>
            /\ pc' = "reset"
            /\ profile' = "redlock"
            /\ i' = i
            /\ lua_time' = 0]_vars
    /\ [][(profile = "redlock" /\ pc # "return") => lua_time' = lua_time]_vars
    /\ [][(TimedOutReturn /\ profile = "redlock") =>
            /\ out'.kind = "row"
            /\ out'.count = consumer_counts[i]
            /\ out'.lua = lua_time
            /\ out'.red = 0
            /\ nrows' = nrows + 1
            /\ IF i < Len(consumer_counts)
               THEN pc' = "reset" /\ i' = i + 1 /\ profile' = "lua"
               ELSE pc' = "done"]_vars
    /\ [](pc = "raised" => (loop_exit = "none" /\ Teardowns(trace) = {}))
    /\ [](pc \notin {"done", "raised"} => ENABLED Next)
    /\ [](InLoop => 2 * now + 1 < 1000)
    /\ [][Progress' > Progress]_vars
    /\ [](pc = "done" => nrows = Len(consumer_counts))

\* C5 witness: the sweep is done, its last row showing a Lua trial that
\* timed out and the Redlock trial that ran after it
SweepDoneAfterTimeout ==
    /\ pc = "done"
    /\ nrows = Len(consumer_counts)
    /\ out = Line("row", "", 200, 0, 330, 0)

\* C6: every cell is run at most once and returns at most once; the row of
\* a count is printed only when both its trials have returned; when the
\* sweep is done every cell has run once and returned once.
OneTrialPerCell ==
    /\ \A c \in Cells : runs[c] <= 1 /\ rets[c] <= runs[c]
    /\ \A k \in Levels :
          nrows >= k => (rets[<<k, "lua">>] = 1 /\ rets[<<k, "redlock">>] = 1)
    /\ pc = "done" =>
          /\ \A c \in Cells : runs[c] = 1 /\ rets[c] = 1
          /\ nrows = Len(consumer_counts)

\* C6 witness: the second row is printed, both trials of the first two
\* counts have run once, the Redlock trial of the second having timed out
SecondRowAfterBothTrials ==
    /\ nrows = 2
    /\ out.kind = "row"
    /\ out.red = 0
    /\ \A k \in 1..2 : \A p \in Profiles : runs[<<k, p>>] = 1 /\ rets[<<k, p>>] = 1

\* C7: the k-th row printed is that of the k-th count; the Redlock trial of
\* a count is called only when its Lua trial has returned, and the Lua
\* trial of the next count only when the row is printed; at most one trial
\* is under way; a trial issues its first command only when the trial
\* before it has issued its teardown.
SweepOrder ==
    /\ out.kind = "row" => out.count = consumer_counts[nrows]
    /\ \A k \in Levels : runs[<<k, "redlock">>] >= 1 => rets[<<k, "lua">>] = 1
    /\ \A k \in Levels \ {1} :
          runs[<<k, "lua">>] >= 1 =>
              (rets[<<k - 1, "redlock">>] = 1 /\ nrows >= k - 1)
    /\ Cardinality({c \in Cells : runs[c] > rets[c]}) <= 1
    /\ (pc = "reset" /\ trace # <<>>) =>
          /\ Len(trace) \in Teardowns(trace)
          /\ trace[Len(trace)].profile # profile
          /\ runs[<<i, profile>>] = 0
    /\ pc = "start" => trace = <<Cmd("down", profile, consumer_counts[i])>>

\* C7 witness: the Redlock trial of the second count has issued its first
\* command, after the first row and the Lua trial of the second count
RedlockAfterLuaOfSecondCount ==
    /\ pc = "start"
    /\ profile = "redlock"
    /\ i = 2
    /\ nrows = 1
    /\ rets[<<2, "lua">>] = 1

\* C8: a row whose Lua result is 0 shows the difference 0, whatever the
\* Redlock result, and the sweep never ends in an arithmetic error: it is
\* only a logs command, before any teardown of its trial, that raises.
ZeroLuaGivesZeroDiff ==
    /\ (out.kind = "row" /\ out.lua = 0) => out.diff = 0
    /\ pc = "raised" => Teardowns(trace) = {}

\* C8 witness: the first row, the Lua trial timed out, Redlock took 300 ms
ZeroLuaRow ==
    /\ nrows = 1
    /\ out = Line("row", "", 5, 0, 300, 0)

\* C9: lua_time is what the Lua trial returned and is kept until the row;
\* the row shows the count, lua_time and what the Redlock trial returned,
\* and for lua_time > 0 the difference shown is (R - L) / L * 100 to the
\* two decimals printed; 120 and 300 give 150.00.
RowReportsTrials ==
    /\ [][(pc = "return" /\ profile = "lua") => lua_time' = total_time_ms]_vars
    /\ [][~(pc = "return" /\ profile = "lua") => lua_time' = lua_time]_vars
    /\ [][(pc = "return" /\ profile = "redlock") =>
            /\ out'.kind = "row"
            /\ out'.count = consumer_counts[i]
            /\ out'.lua = lua_time
            /\ out'.red = total_time_ms
            /\ lua_time > 0 =>
                  LET e == out'.diff * lua_time
                             - (total_time_ms - lua_time) * 10000
                  IN  2 * e <= lua_time /\ -2 * e <= lua_time]_vars
    /\ []((out.kind = "row" /\ out.lua = 120 /\ out.red = 300) =>
            out.diff = 15000)

\* C9 witness: the row 5, 120, 300, 150.00%
ScenarioRow == out = Line("row", "", 5, 120, 300, 15000)

(***************************************************************************)
(* The backend commands of a trial                                         *)
(***************************************************************************)
\* the command of this step exited non-zero: it used up one anomaly more
\* than the seconds it took
CommandFailed == budget - budget' > now' - now

ResetIssued == trace' = <<Cmd("down", profile, consumer_counts[i])>>

\* C11: the reset of a profile that has no running instance, whether the
\* backend exits zero with nothing to do or exits non-zero, raises nothing
\* and changes nothing in the backend: the down command is issued and the
\* trial goes on to the start; a non-zero exit is possible there while an
\* anomaly is left, and the reset can always be taken.
IdempotentReset ==
    /\ [][(pc = "reset" /\ ~running[profile]) =>
            /\ ResetIssued
            /\ pc' = "start"
            /\ running' = running
            /\ logs' = logs]_vars
    /\ [](pc = "reset" => ENABLED Reset)
    /\ []((pc = "reset" /\ ~running[profile] /\ budget > 0) =>
            ENABLED (Reset /\ CommandFailed /\ pc' = "start"))

\* C11 witness: the first trial is at its start after a reset that exited
\* non-zero at once, with no instance of the profile running
StartAfterFailedReset ==
    /\ pc = "start"
    /\ i = 1
    /\ profile = "lua"
    /\ ~running[profile]
    /\ budget < MaxAnomalies
    /\ lastDur = 0

\* the kinds of the commands of a trial, in the order they were issued
\* (polls that follow one another count as one logs entry)
Kinds(tr) == [k \in 1..Len(tr) |-> tr[k].cmd]

\* C12: at every point of a trial the commands issued so far are reset;
\* reset, start; reset, start, polls; and, once the call is about to
\* return, reset, start, one or more polls, teardown: the start follows
\* the reset and is issued once, every poll lies between the start and the
\* teardown, and all of them name the trial's profile.
ProtocolOrder ==
    /\ pc = "start" => Kinds(trace) = <<"down">>
    /\ pc = "fetch" =>
          Kinds(trace) \in {<<"down", "up">>, <<"down", "up", "logs">>}
    /\ pc \in {"scan", "teardown", "raised"} =>
          Kinds(trace) = <<"down", "up", "logs">>
    /\ pc = "return" => Kinds(trace) = <<"down", "up", "logs", "down">>
    /\ (InTrial \/ pc = "raised") =>
          /\ \A k \in 1..Len(trace) : trace[k].profile = profile
          /\ Cardinality({k \in 1..Len(trace) : trace[k].cmd = "up"}) <= 1
    /\ (pc = "fetch" /\ now > start_time) =>
          Kinds(trace) = <<"down", "up", "logs">>

\* C12 witness: a trial that found the marker two seconds after polling
\* began is about to return, having issued reset, start, polls and teardown
ThirdPollThenTeardown ==
    /\ pc = "return"
    /\ loop_exit = "match"
    /\ now - start_time = 2 * INTERVAL
    /\ Kinds(trace) = <<"down", "up", "logs", "down">>

TeardownIssued ==
    /\ Len(trace') \in Teardowns(trace')
    /\ trace'[Len(trace')] = Cmd("down", profile, consumer_counts[i])

\* C13: a reset, start or teardown that exits non-zero raises nothing and
\* changes nothing in the backend, and the trial goes on to its next step
\* (such an exit can happen wherever an anomaly is left).  A trial whose
\* service is not running after the start has fetched no text and no
\* result; each of its polls is followed by the next poll or by the
\* timeout, with the diagnostic printed; it reaches the teardown only by
\* the timeout, issues the teardown and returns 0.
SoftBackendFailures ==
    /\ [][(pc \in {"reset", "start", "teardown"} /\ CommandFailed) =>
            /\ pc' = CASE pc = "reset" -> "start"
                        [] pc = "start" -> "fetch"
                        [] pc = "teardown" -> "return"
            /\ running' = running
            /\ logs' = logs
            /\ config' = config]_vars
    /\ []((pc = "start" /\ budget > 0) =>
            ENABLED (Start /\ CommandFailed /\ pc' = "fetch"))
    /\ []((pc = "teardown" /\ budget > 0) =>
            ENABLED (Teardown /\ CommandFailed /\ pc' = "return"))
    /\ []((InLoop /\ ~running[profile]) =>
            /\ logs[profile] = <<>>
            /\ stdout = <<>>
            /\ total_time_ms = 0)
    /\ [][(pc = "scan" /\ ~running[profile]) =>
            \/ pc' = "fetch"
            \/ /\ pc' = "teardown"
               /\ loop_exit' = "timeout"
               /\ out' = TimeoutLine(profile)]_vars
    /\ []((pc = "teardown" /\ ~running[profile]) =>
            /\ loop_exit = "timeout"
            /\ out = TimeoutLine(profile)
            /\ total_time_ms = 0)
    /\ [][(pc = "teardown" /\ ~running[profile]) =>
            /\ pc' = "return"
            /\ TeardownIssued
            /\ total_time_ms' = 0]_vars

\* C13 witness: the start exited non-zero, the service never ran, and the
\* loop has been left by the timeout with the diagnostic printed
TimeoutAfterFailedStart ==
    /\ pc = "teardown"
    /\ ~running[profile]
    /\ budget < MaxAnomalies
    /\ loop_exit = "timeout"
    /\ out = TimeoutLine(profile)
    /\ now - start_time = TIMEOUT + INTERVAL

(***************************************************************************)
(* The timeout                                                             *)
(***************************************************************************)
\* the line `Timeout waiting for <p>`
Diagnostic(p) == Line("timeout", p, 0, 0, 0, 0)

\* C14: while the loop runs the last line printed is the announcement of
\* the trial, so no diagnostic has been printed in it; the step that
\* leaves the loop prints `Timeout waiting for <profile>`, with the
\* trial's profile, exactly if it leaves by the timeout; after the loop
\* the diagnostic is the last line printed exactly if the loop was left by
\* the timeout, and then the result is 0, while after a match the last
\* line is still the announcement; nothing is printed between the loop and
\* the return.
TimeoutDiagnostic ==
    /\ [](InLoop => out = RunningLine(profile, consumer_counts[i]))
    /\ [][pc = "scan" =>
            /\ (out' = Diagnostic(profile)) <=> (loop_exit' = "timeout")
            /\ out' \in {out, Diagnostic(profile)}]_vars
    /\ [](pc \in {"teardown", "return"} =>
            IF loop_exit = "timeout"
            THEN out = Diagnostic(profile) /\ total_time_ms = 0
            ELSE /\ loop_exit = "match"
                 /\ out = RunningLine(profile, consumer_counts[i]))
    /\ [][pc = "teardown" => out' = out]_vars
    /\ [][out'.kind = "timeout" =>
            (out.kind = "timeout" \/ (pc = "scan" /\ pc' = "teardown"))]_vars

\* C14 witness: the Redlock trial of the first count has timed out and is
\* about to return 0, its diagnostic naming redlock
RedlockTimeoutNamed ==
    /\ pc = "return"
    /\ profile = "redlock"
    /\ loop_exit = "timeout"
    /\ out = Line("timeout", "redlock", 0, 0, 0, 0)
    /\ total_time_ms = 0

\* C15: in every trial of the sweep the clock of the timeout is read when
\* the start command has returned, whatever time the reset and the start
\* took; from then on a poll without a marker is followed by the next poll
\* one interval later as long as no more than 60 seconds have passed since
\* that reading, and by the timeout as soon as more have; the loop is left
\* by the timeout only then.  The time since the entry of the call, and so
\* whatever earlier trials took, plays no part.
PollingBudget ==
    /\ [][pc = "start" => (pc' = "fetch" /\ start_time' = now')]_vars
    /\ [][(pc \in {"fetch", "scan", "teardown"}) =>
            (start_time' = start_time)]_vars
    /\ [][(pc = "scan" /\ ~HasMarker(stdout)) =>
            IF now - start_time > TIMEOUT
            THEN pc' = "teardown" /\ loop_exit' = "timeout" /\ now' = now
            ELSE pc' = "fetch" /\ now' = now + INTERVAL]_vars
    /\ [](LeftByTimeout => now - start_time > TIMEOUT)

\* C15 witness: the Redlock trial of a count whose Lua trial timed out:
\* its reset or start took a second, it still polled 61 seconds after the
\* start had returned, 62 after its own entry, and is left by the timeout
FullBudgetAfterSlowStart ==
    /\ LeftByTimeout
    /\ profile = "redlock"
    /\ lua_time = 0
    /\ start_time = 1
    /\ lastDur = 0
    /\ now = start_time + TIMEOUT + INTERVAL

(***************************************************************************)
(* The configuration of a trial                                            *)
(***************************************************************************)
\* the text t is the decimal numeral of n
Writes(t, n) ==
    /\ t # <<>>
    /\ \A k \in 1..Len(t) : IsNumeral(t[k])
    /\ Decimal(t, 1, Len(t)) = n

\* the env e sets NUM_CONSUMERS to the count c and WORK_DURATION to the
\* work duration of the sweep
ConfiguredFor(e, c) ==
    /\ Writes(e.NUM_CONSUMERS, c)
    /\ Writes(e.WORK_DURATION, work_duration)

\* C16: every command of a trial (reset, start, polls, teardown) is given
\* an env with NUM_CONSUMERS the trial's count and WORK_DURATION 50, and
\* services made by the start are made with it; the Redlock trial of a row
\* is given the same env as the Lua trial before it, the Lua trial of the
\* next row another NUM_CONSUMERS, its own; the environment of the process
\* itself is never changed.
TrialConfiguration ==
    /\ [](environ = HostEnviron)
    /\ []((InTrial \/ pc = "raised") =>
            \A k \in 1..Len(trace) :
                ConfiguredFor(trace[k].env, consumer_counts[i]))
    /\ [][(pc = "start" /\ config'[profile] # config[profile]) =>
            ConfiguredFor(config'[profile], consumer_counts[i])]_vars
    /\ [][(pc = "reset" /\ trace # <<>>) =>
            IF profile = "redlock"
            THEN trace'[1].env = trace[1].env
            ELSE /\ trace'[1].env.NUM_CONSUMERS # trace[1].env.NUM_CONSUMERS
                 /\ trace'[1].env.WORK_DURATION = trace[1].env.WORK_DURATION]_vars

\* C16 witness: the Redlock trial of the third count has issued its reset
\* with NUM_CONSUMERS=100 and WORK_DURATION=50, the process environment
\* being what it was
RedlockOfThirdCountConfigured ==
    /\ pc = "start"
    /\ profile = "redlock"
    /\ i = 3
    /\ trace[1].env = [NUM_CONSUMERS |-> <<"1", "0", "0">>,
                       WORK_DURATION |-> <<"5", "0">>]
    /\ environ = [NUM_CONSUMERS |-> <<>>, WORK_DURATION |-> <<>>]

(***************************************************************************)
(* The marker and the timeout                                              *)
(***************************************************************************)
Polled == \E k \in 1..Len(trace) : trace[k].cmd = "logs"

\* C17: the first thing the loop does is a poll, so a trial that has left
\* its loop has polled; a fetched text that holds a marker with an integer
\* ends the loop by the match, with the integer of its first marker as the
\* result and nothing printed, however long ago the polling began; a loop
\* left by the timeout had no such marker in its last text.
MarkerBeforeTimeout ==
    /\ [][pc = "start" => pc' = "fetch"]_vars
    /\ [](pc \in {"scan", "teardown", "return"} => Polled)
    /\ [][(pc = "scan" /\ HasMarker(stdout)) =>
            /\ pc' = "teardown"
            /\ loop_exit' = "match"
            /\ total_time_ms' = FirstMarkerValue(stdout)
            /\ out' = out]_vars
    /\ [](loop_exit = "timeout" => ~HasMarker(stdout))

\* C17 witness: the marker arrived with the poll made 61 seconds after
\* polling began, and the trial ends with its value, not by the timeout
MarkerAtLastPoll ==
    /\ pc = "teardown"
    /\ loop_exit = "match"
    /\ now - start_time = TIMEOUT + INTERVAL
    /\ total_time_ms = 120
    /\ out.kind = "running"

(***************************************************************************)
(* The backend between trials                                              *)
(***************************************************************************)
\* C18: a trial returns a result other than 0 only if it is the time its
\* own run measured: the time of the service of its profile made with its
\* count by its start, as fetched by one of its polls.
ResultOfOwnRun ==
    (pc = "return" /\ total_time_ms # 0) =>
        /\ total_time_ms = ServiceTime(profile, consumer_counts[i])
        /\ HasMarker(stdout)
        /\ FirstMarkerValue(stdout) = total_time_ms

\* C19: at every moment of the sweep the environment of at most one
\* profile is running, and when a trial is about to issue its start, after
\* its reset, no environment of the other profile is running.
ExclusiveBackend ==
    /\ Cardinality({p \in Profiles : running[p]}) <= 1
    /\ pc = "start" => \A p \in Profiles \ {profile} : ~running[p]

====
